---------------------------- MODULE Spec2Model ----------------------------
(***************************************************************************)
(* Model of python/cacaluploader.py: one run of the script (Spec) and the  *)
(* time-window API of CampusCalendarUploader (WindowSpec).                 *)
(*                                                                         *)
(* Time is counted in ticks; a day has TicksPerDay ticks and tick 0 of a   *)
(* day is midnight.  The collaborators (CampusOffice, the CalDAV server,   *)
(* the config file, the clock) are the environment: every call to them     *)
(* draws its outcome from a small set.                                     *)
(***************************************************************************)
EXTENDS Integers, Sequences, FiniteSets, TLC

VARIABLES
    pc,             \* position of the run
    calendar_url,   \* self.calendar_url
    cfg_start,      \* start_time handed to __init__ (None when absent)
    cfg_end,        \* end_time handed to __init__ (None when absent)
    start_time,     \* self._start_time
    end_time,       \* self._end_time
    calls,          \* every call made to CampusOffice or the CalDAV server, in order
    raised,         \* the exception that ended the run, "none" otherwise
    errlog,         \* the log.error lines written by the except clauses
    req_text,       \* body of the export response
    source_events,  \* the events handed to _upload_events
    calendars,      \* principal.calendars()
    upload_cal,     \* index in calendars of the calendar returned, 0 when none
    dest,           \* objects of the destination calendar
    dest0,          \* objects of the destination calendar when the run started
    old_events,     \* result of date_search
    idx,            \* position of the running loop of _upload_events
    lastCall        \* the last call on the window API and what it did

vars == <<pc, calendar_url, cfg_start, cfg_end, start_time, end_time, calls,
          raised, errlog, req_text, source_events, calendars, upload_cal, dest,
          dest0, old_events, idx, lastCall>>

----------------------------------------------------------------------------
(* Bounds *)

TicksPerDay == 2
MaxDay == 1
MaxOld == 2
MaxSource == 1
MaxCalendars == 3

(* Program constants *)

None == -1
DaysPerWeek == 7
WeeksBefore == 1
WeeksAfter == 27

----------------------------------------------------------------------------
(* Time *)

Week == DaysPerWeek * TicksPerDay

timedelta(weeks) == weeks * Week

\* datetime.strptime(s, '%Y-%m-%d') of the date string of day d: midnight of d
strptime(day) == day * TicksPerDay

\* '{start:%d.%m.%Y}': the day of start, read by the server as its first instant
FormatStart(start) == (start \div TicksPerDay) * TicksPerDay

\* '{end:%d.%m.%Y} 23:59:59': the last instant of the day of end
FormatEnd(end) == (end \div TicksPerDay) * TicksPerDay + (TicksPerDay - 1)

Days == 0..MaxDay
EventTimes == 0..((MaxDay + 1) * TicksPerDay - 1)
TodayChoices == {Week + t : t \in 0..(TicksPerDay - 1)}


----------------------------------------------------------------------------
(* The time window of CampusCalendarUploader.  An object is the record of  *)
(* its two fields; a call returns the fields and the exception it raised.  *)

Returned(start, end) == [start_time |-> start, end_time |-> end, raised |-> "none"]

Raising(self, exc) == [start_time |-> self.start_time, end_time |-> self.end_time, raised |-> exc]

\* Mutant of StartAfterEnd: the start setter checks nothing.
StartAfterEndUnchecked(end, start) == FALSE

\* self.end_time < start
StartAfterEnd(end, start) == end < start

\* self.start_time > end
EndBeforeStart(start, end) == start > end

\* @start_time.setter
set_start_time(self, start) ==
    IF self.end_time = None
    THEN Returned(start, start)
    ELSE IF StartAfterEnd(self.end_time, start)
         THEN Raising(self, "ValueError")
         ELSE Returned(start, self.end_time)

\* @end_time.setter
set_end_time(self, end) ==
    IF self.start_time = None
    THEN Returned(end, end)
    ELSE IF EndBeforeStart(self.start_time, end)
         THEN Raising(self, "ValueError")
         ELSE Returned(self.start_time, end)

\* The default window __init__ sets before it looks at its arguments
DefaultWindow(now) ==
    Returned(now + timedelta(0 - WeeksBefore), now + timedelta(WeeksAfter))

\* CampusCalendarUploader.__init__(..., start_time, end_time) at clock value now
__init__(now, start, end) ==
    LET self == DefaultWindow(now) IN
    IF start # None /\ end # None
    THEN LET s == set_start_time(self, start) IN
         IF s.raised # "none" THEN s ELSE set_end_time(s, end)
    ELSE IF (start = None) # (end = None)
         THEN Raising(self, "ValueError")
         ELSE self

----------------------------------------------------------------------------
(* The config file and the try/except of the script *)

Urls == {"https://x/cal/41", "https://x/cal/42", "https://x/cal/43"}

\* The url option of the config files of the runs, and the URL of another calendar
ConfigUrl == "https://x/cal/42"
OtherUrl == "https://x/cal/41"

RequiredOptions ==
    << <<"CampusOffice", "mat">>, <<"CampusOffice", "pass">>,
       <<"CalDAV", "url">>, <<"CalDAV", "user">>, <<"CalDAV", "pass">> >>

PeriodOptions == << <<"Period", "start">>, <<"Period", "end">> >>

Range(f) == {f[i] : i \in DOMAIN f}

\* A date string of the file: a day written '%Y-%m-%d', or something else
DateStrings == [wellformed : {TRUE}, day : Days] \cup {[wellformed |-> FALSE, day |-> 0]}

SomeDate == [wellformed |-> TRUE, day |-> 0]

CompleteOptions == Range(RequiredOptions) \cup Range(PeriodOptions)

\* Config files: complete ones with every period, ones without [Period],
\* and ones that lack a single option or a single section.
ConfigFiles ==
    LET full(s, e) == [sections |-> {"CampusOffice", "CalDAV", "Period"},
                       options |-> CompleteOptions, url |-> ConfigUrl, start |-> s, end |-> e]
        plain == [sections |-> {"CampusOffice", "CalDAV"},
                  options |-> Range(RequiredOptions), url |-> ConfigUrl,
                  start |-> SomeDate, end |-> SomeDate]
    IN  {full(s, e) : s \in DateStrings, e \in DateStrings}
        \cup {plain}
        \cup {[full(SomeDate, SomeDate) EXCEPT !.options = @ \ {o}] : o \in CompleteOptions}
        \cup {[plain EXCEPT !.sections = @ \ {sec}] : sec \in {"CampusOffice", "CalDAV"}}
        \cup {[sections |-> {}, options |-> {}, url |-> ConfigUrl, start |-> SomeDate, end |-> SomeDate]}

\* ConfigParser.get(section, option): the exception it raises, "none" when it returns
ConfigGet(cfg, section, option) ==
    IF section \notin cfg.sections THEN "NoSectionError"
    ELSE IF <<section, option>> \notin cfg.options THEN "NoOptionError"
    ELSE "none"

\* The first exception of the gets made in order, "none" when all return
RECURSIVE FirstError(_, _, _)
FirstError(cfg, gets, k) ==
    IF k > Len(gets) THEN "none"
    ELSE LET e == ConfigGet(cfg, gets[k][1], gets[k][2]) IN
         IF e # "none" THEN e ELSE FirstError(cfg, gets, k + 1)

\* datetime.strptime(config.get('Period', option), '%Y-%m-%d')
ReadDate(cfg, option, text) ==
    LET e == ConfigGet(cfg, "Period", option) IN
    IF e # "none" THEN [raised |-> e, value |-> None]
    ELSE IF ~text.wellformed THEN [raised |-> "ValueError", value |-> None]
    ELSE [raised |-> "none", value |-> strptime(text.day)]

\* The config parsing of the script: the arguments of the constructor, or an exception
ParseConfigFile(cfg) ==
    LET e == FirstError(cfg, RequiredOptions, 1)
        failed(exc) == [raised |-> exc, url |-> "", start |-> None, end |-> None]
    IN  IF e # "none" THEN failed(e)
        ELSE IF "Period" \notin cfg.sections
        THEN [raised |-> "none", url |-> cfg.url, start |-> None, end |-> None]
        ELSE LET s == ReadDate(cfg, "start", cfg.start) IN
             IF s.raised # "none" THEN failed(s.raised)
             ELSE LET en == ReadDate(cfg, "end", cfg.end) IN
                  IF en.raised # "none" THEN failed(en.raised)
                  ELSE [raised |-> "none", url |-> cfg.url, start |-> s.value, end |-> en.value]

\* The except clauses of the script: the line logged for an exception, "" when
\* no clause catches it.  HTTPError and ConnectionError are RequestExceptions.
ExceptClause(exc) ==
    CASE exc = "NoOptionError" -> "Could not load config from file"
      [] exc \in {"HTTPError", "ConnectionError", "CampusOfficeAuthorizationError"}
             -> "Could not retrieve CampusOffice calendar"
      [] exc = "AuthorizationError" -> "Could not access CalDAV calendar: Authorization failed"
      [] exc = "NotFoundError" -> "Could not find CalDAV calendar"
      [] exc = "ReportError" -> "Could not retrieve list of already existing events in CalDAV calendar"
      [] exc = "DeleteError" -> "Could not remove already existing event in CalDAV calendar"
      [] exc = "PutError" -> "Could not upload new event to CalDAV calendar"
      [] exc = "ValueError" -> "Could not parse time period"
      [] OTHER -> ""

\* An exception leaves the try block: it is logged and the script ends, or it
\* escapes the script.
Raise(exc) ==
    /\ raised' = exc
    /\ IF ExceptClause(exc) # ""
       THEN pc' = "exit" /\ errlog' = Append(errlog, ExceptClause(exc))
       ELSE pc' = "crashed" /\ errlog' = errlog

----------------------------------------------------------------------------
(* upload(): the three calls it makes, in order *)

\* Mutant of upload_order: the destination is synchronised before the source is fetched.
upload_order_sync_first == <<"resolve", "replace", "fetch">>

\* _retrieve_source_calendar, then _retrieve_upload_calendar, then _upload_events
upload_order == <<"fetch", "resolve", "replace">>

\* The first position of each call
PhaseEntry(phase) ==
    CASE phase = "fetch" -> "base"
      [] phase = "resolve" -> "resolve"
      [] phase = "replace" -> "query"

\* Where the run goes when a call of upload() returns: the next call, or out of
\* the try block.
AfterPhase(phase) ==
    LET k == CHOOSE n \in DOMAIN upload_order : upload_order[n] = phase IN
    IF k = Len(upload_order) THEN "exit" ELSE PhaseEntry(upload_order[k + 1])

Call(op, result, detail) == [op |-> op, result |-> result, detail |-> detail]

CallsOf(op) == {k \in DOMAIN calls : calls[k].op = op}

----------------------------------------------------------------------------
(* CampusOffice *)

\* Outcomes of a request: a 2xx response, another response, no response
HttpOutcomes == {"ok", "HTTPError", "ConnectionError"}

\* Redirect targets of the login response, as path segments
Locations == {<<"office", "default.asp">>, <<"office", "loginfailed.asp">>}

\* Mutant of LoginFailed: the redirect target is not looked at.
LoginFailedIgnored(location) == FALSE

\* 'loginfailed' in req.history[0].headers['location']
LoginFailed(location) == \E k \in DOMAIN location : location[k] = "loginfailed.asp"

\* The calendars CampusOffice may hold: the times of its events
SourceCalendars == {S \in SUBSET EventTimes : Cardinality(S) <= MaxSource}

Event(t) == [kind |-> "VEVENT", time |-> t]

\* The events of the times in S, in time order
RECURSIVE EventsInOrder(_)
EventsInOrder(S) ==
    IF S = {} THEN <<>>
    ELSE LET t == CHOOSE x \in S : \A y \in S : x <= y IN
         <<Event(t)>> \o EventsInOrder(S \ {t})

\* The export CampusOffice answers to iCalExport.asp?startdt=..&enddt=..: a
\* timezone definition and the events of the requested range
ExportOf(held, start, end) ==
    <<[kind |-> "VTIMEZONE", time |-> None]>>
        \o EventsInOrder({t \in held : FormatStart(start) <= t /\ t <= FormatEnd(end)})

\* The bodies the export request may get: an export, or something that is no calendar
ExportBodies(start, end) ==
    {[wellformed |-> TRUE, components |-> ExportOf(held, start, end)] : held \in SourceCalendars}
        \cup {[wellformed |-> FALSE, components |-> <<>>]}

NoText == [wellformed |-> FALSE, components |-> <<>>]

IsEvent(c) == c.kind = "VEVENT"

\* filter(lambda x: isinstance(x, icalendar.Event), source_cal.subcomponents)
FilterEvents(components) == SelectSeq(components, IsEvent)

----------------------------------------------------------------------------
(* The CalDAV server *)

\* What principal.calendars() may list: the URL of each calendar
RECURSIVE SeqsUpTo(_, _)
SeqsUpTo(S, n) ==
    IF n = 0 THEN {<<>>}
    ELSE LET shorter == SeqsUpTo(S, n - 1) IN
         shorter \cup {Append(q, x) : q \in shorter, x \in S}

CalendarListings == SeqsUpTo(Urls, MaxCalendars)

\* The listings the runs of the script draw from
RunListings == {<<>>, <<OtherUrl>>, <<OtherUrl, ConfigUrl>>}

\* Mutant of _retrieve_upload_calendar: the first calendar is returned, whatever its URL.
_retrieve_upload_calendar_any(cals, url) == IF Len(cals) = 0 THEN 0 ELSE 1

\* The loop of _retrieve_upload_calendar from position k on: the position of
\* the calendar returned, 0 when the loop ends without returning
RECURSIVE SearchFrom(_, _, _)
SearchFrom(cals, url, k) ==
    IF k > Len(cals) THEN 0
    ELSE IF cals[k] = url THEN k
    ELSE SearchFrom(cals, url, k + 1)

\* _retrieve_upload_calendar: for c in principal.calendars(): if str(c.url) == url: return c
_retrieve_upload_calendar(cals, url) == SearchFrom(cals, url, 1)

\* The objects a destination calendar may hold: an id and the time of the event
Object(oid, t) == [oid |-> oid, time |-> t]

OldObjects == {Object(t + 1, t) : t \in EventTimes}

Destinations == {D \in SUBSET OldObjects : Cardinality(D) <= MaxOld}

\* The id the server gives a new object
NewOid(content) == Cardinality(OldObjects) + 1 + Cardinality({o \in content : o.oid > Cardinality(OldObjects)})

RECURSIVE ObjectsInOrder(_)
ObjectsInOrder(S) ==
    IF S = {} THEN <<>>
    ELSE LET o == CHOOSE x \in S : \A y \in S : x.oid <= y.oid IN
         <<o>> \o ObjectsInOrder(S \ {o})

\* The objects of content in the window, as the server returns them
InWindow(content, start, end) == {o \in content : start <= o.time /\ o.time <= end}

\* Mutant of date_search: a failed query is taken for an empty result.
date_search_swallowed(content, start, end, outcome) ==
    IF outcome # "ok" THEN [raised |-> "none", value |-> <<>>]
    ELSE [raised |-> "none", value |-> ObjectsInOrder(InWindow(content, start, end))]

\* upload_cal.date_search(self.start_time, self.end_time)
date_search(content, start, end, outcome) ==
    IF outcome # "ok" THEN [raised |-> "ReportError", value |-> <<>>]
    ELSE [raised |-> "none", value |-> ObjectsInOrder(InWindow(content, start, end))]

\* event_cal = icalendar.Calendar(); event_cal.add_component(ev); event_cal.to_ical()
to_ical(ev) == [kind |-> "VCALENDAR", subcomponents |-> <<ev>>]

\* upload_cal.add_event(ical): the calendar with the event of ical as a new object
add_event(content, ical) ==
    content \cup {Object(NewOid(content), ical.subcomponents[k].time) : k \in DOMAIN ical.subcomponents}

\* Mutant of AllDeleted: the delete loop ends one event early.
AllDeletedEarly(i, n) == i >= n

\* The delete loop of _upload_events is over at position i of n events
AllDeleted(i, n) == i > n

\* The upload loop of _upload_events is over at position i of n events
AllUploaded(i, n) == i > n

----------------------------------------------------------------------------
(* The run of the script *)

cfgVars == <<calendar_url, cfg_start, cfg_end>>
winVars == <<start_time, end_time>>
srcVars == <<req_text, source_events>>
dstVars == <<calendars, upload_cal, dest, old_events, idx>>
envVars == <<dest0, lastCall>>

NoCall == [op |-> "none", start |-> None, end |-> None,
           before_start |-> None, before_end |-> None, raised |-> "none"]

Init ==
    /\ pc = "main"
    /\ calendar_url = ""
    /\ cfg_start = None /\ cfg_end = None
    /\ start_time = None /\ end_time = None
    /\ calls = <<>>
    /\ raised = "none"
    /\ errlog = <<>>
    /\ req_text = NoText
    /\ source_events = <<>>
    /\ calendars = <<>>
    /\ upload_cal = 0
    /\ dest \in Destinations
    /\ dest0 = dest
    /\ old_events = <<>>
    /\ idx = 0
    /\ lastCall = NoCall

NoRaise == UNCHANGED <<raised, errlog>>

\* config.read(config_file) and the config.get calls of the try block
ParseConfig ==
    /\ pc = "main"
    /\ \E cfg \in ConfigFiles :
         LET r == ParseConfigFile(cfg) IN
         IF r.raised # "none"
         THEN Raise(r.raised) /\ UNCHANGED cfgVars
         ELSE /\ calendar_url' = r.url
              /\ cfg_start' = r.start
              /\ cfg_end' = r.end
              /\ pc' = "construct"
              /\ NoRaise
    /\ UNCHANGED <<winVars, calls, srcVars, dstVars, envVars>>

\* uploader = CampusCalendarUploader(..., start_time, end_time); uploader.upload()
Construct ==
    /\ pc = "construct"
    /\ \E now \in TodayChoices :
         LET r == __init__(now, cfg_start, cfg_end) IN
         IF r.raised # "none"
         THEN Raise(r.raised) /\ UNCHANGED winVars
         ELSE /\ start_time' = r.start_time
              /\ end_time' = r.end_time
              /\ pc' = PhaseEntry(upload_order[1])
              /\ NoRaise
    /\ UNCHANGED <<cfgVars, calls, srcVars, dstVars, envVars>>

\* req = session.get(cls._campus_base_url); req.raise_for_status()
FetchBasePage ==
    /\ pc = "base"
    /\ \E o \in HttpOutcomes :
         /\ calls' = Append(calls, Call("get_base", o, <<>>))
         /\ IF o # "ok" THEN Raise(o) ELSE pc' = "login" /\ NoRaise
    /\ UNCHANGED <<cfgVars, winVars, srcVars, dstVars, envVars>>

\* req = session.post(login url); req.raise_for_status(); the check of the redirect
Login ==
    /\ pc = "login"
    /\ \E o \in HttpOutcomes, loc \in Locations :
         /\ calls' = Append(calls, Call("post_login", o, IF o = "ConnectionError" THEN <<>> ELSE loc))
         /\ IF o # "ok" THEN Raise(o)
            ELSE IF LoginFailed(loc) THEN Raise("CampusOfficeAuthorizationError")
            ELSE pc' = "export" /\ NoRaise
    /\ UNCHANGED <<cfgVars, winVars, srcVars, dstVars, envVars>>

\* req = session.get(calendar url of the window); req.raise_for_status()
RetrieveCalendar ==
    /\ pc = "export"
    /\ \/ \E body \in ExportBodies(start_time, end_time) :
            /\ calls' = Append(calls, Call("get_calendar", "ok", <<>>))
            /\ req_text' = body
            /\ pc' = "logout"
            /\ NoRaise
       \/ \E o \in HttpOutcomes \ {"ok"} :
            /\ calls' = Append(calls, Call("get_calendar", o, <<>>))
            /\ Raise(o)
            /\ UNCHANGED req_text
    /\ UNCHANGED <<cfgVars, winVars, source_events, dstVars, envVars>>

\* session.get(logout url): the response is not looked at
Logout ==
    /\ pc = "logout"
    /\ \E o \in HttpOutcomes :
         /\ calls' = Append(calls, Call("get_logout", o, <<>>))
         /\ IF o = "ConnectionError" THEN Raise(o) ELSE pc' = "parse" /\ NoRaise
    /\ UNCHANGED <<cfgVars, winVars, srcVars, dstVars, envVars>>

\* icalendar.Calendar.from_ical(req.text), and the filter of upload()
ParseCalendar ==
    /\ pc = "parse"
    /\ IF ~req_text.wellformed
       THEN Raise("ValueError") /\ UNCHANGED source_events
       ELSE /\ source_events' = FilterEvents(req_text.components)
            /\ pc' = AfterPhase("fetch")
            /\ NoRaise
    /\ UNCHANGED <<cfgVars, winVars, req_text, calls, dstVars, envVars>>

\* _retrieve_upload_calendar(), the principal listing one of listings
ResolveFrom(listings) ==
    /\ pc = "resolve"
    /\ \/ /\ calls' = Append(calls, Call("calendars", "AuthorizationError", <<>>))
          /\ Raise("AuthorizationError")
          /\ UNCHANGED <<calendars, upload_cal>>
       \/ \E cals \in listings :
            LET c == _retrieve_upload_calendar(cals, calendar_url) IN
            /\ calls' = Append(calls, Call("calendars", "ok", <<>>))
            /\ calendars' = cals
            /\ upload_cal' = c
            /\ IF c = 0 THEN Raise("NotFoundError")
               ELSE pc' = AfterPhase("resolve") /\ NoRaise
    /\ UNCHANGED <<cfgVars, winVars, srcVars, dest, old_events, idx, envVars>>

Resolve == ResolveFrom(RunListings)

\* Where _upload_events goes when its delete loop is over
AfterDeleteLoop ==
    IF AllUploaded(1, Len(source_events)) THEN AfterPhase("replace") ELSE "upload"

\* old_events = upload_cal.date_search(self.start_time, self.end_time)
DateSearch ==
    /\ pc = "query"
    /\ \E o \in {"ok", "ReportError"} :
         LET r == date_search(dest, start_time, end_time, o) IN
         /\ calls' = Append(calls, Call("date_search", o, <<>>))
         /\ IF r.raised # "none"
            THEN Raise(r.raised) /\ UNCHANGED <<old_events, idx>>
            ELSE /\ old_events' = r.value
                 /\ idx' = 1
                 /\ pc' = IF AllDeleted(1, Len(r.value)) THEN AfterDeleteLoop ELSE "delete"
                 /\ NoRaise
    /\ UNCHANGED <<cfgVars, winVars, srcVars, calendars, upload_cal, dest, envVars>>

\* One turn of the delete loop: ev.delete()
DeleteEvent ==
    /\ pc = "delete"
    /\ \E o \in {"ok", "DeleteError"} :
         /\ calls' = Append(calls, Call("delete", o, <<>>))
         /\ IF o # "ok"
            THEN Raise(o) /\ UNCHANGED <<dest, idx>>
            ELSE /\ dest' = dest \ {old_events[idx]}
                 /\ IF AllDeleted(idx + 1, Len(old_events))
                    THEN idx' = 1 /\ pc' = AfterDeleteLoop
                    ELSE idx' = idx + 1 /\ pc' = "delete"
                 /\ NoRaise
    /\ UNCHANGED <<cfgVars, winVars, srcVars, calendars, upload_cal, old_events, envVars>>

\* One turn of the upload loop: upload_cal.add_event(event_cal.to_ical())
AddEvent ==
    /\ pc = "upload"
    /\ \E o \in {"ok", "PutError"} :
         /\ calls' = Append(calls, Call("add_event", o, <<>>))
         /\ IF o # "ok"
            THEN Raise(o) /\ UNCHANGED <<dest, idx>>
            ELSE /\ dest' = add_event(dest, to_ical(source_events[idx]))
                 /\ idx' = idx + 1
                 /\ pc' = IF AllUploaded(idx + 1, Len(source_events))
                          THEN AfterPhase("replace") ELSE "upload"
                 /\ NoRaise
    /\ UNCHANGED <<cfgVars, winVars, srcVars, calendars, upload_cal, old_events, envVars>>

Next ==
    \/ ParseConfig
    \/ Construct
    \/ FetchBasePage
    \/ Login
    \/ RetrieveCalendar
    \/ Logout
    \/ ParseCalendar
    \/ Resolve
    \/ DateSearch
    \/ DeleteEvent
    \/ AddEvent

Spec == Init /\ [][Next]_vars

----------------------------------------------------------------------------
(* The window API: an object is made and its bounds are assigned one at a  *)
(* time, any number of times.                                              *)

\* Times beyond the end of every default window
FarTimes == {Week + timedelta(WeeksAfter) + t : t \in TicksPerDay..(2 * TicksPerDay)}

WindowInputs == EventTimes \cup FarTimes

Fields == [start_time |-> start_time, end_time |-> end_time]

InitWindow ==
    /\ pc = "new"
    /\ calendar_url = ""
    /\ cfg_start = None /\ cfg_end = None
    /\ start_time = None /\ end_time = None
    /\ calls = <<>>
    /\ raised = "none"
    /\ errlog = <<>>
    /\ req_text = NoText
    /\ source_events = <<>>
    /\ calendars = <<>>
    /\ upload_cal = 0
    /\ dest = {}
    /\ dest0 = {}
    /\ old_events = <<>>
    /\ idx = 0
    /\ lastCall = NoCall

\* CampusCalendarUploader(..., start_time=s, end_time=e)
NewUploader ==
    /\ pc = "new"
    /\ \E now \in TodayChoices, s \in WindowInputs \cup {None}, e \in WindowInputs \cup {None} :
         LET r == __init__(now, s, e) IN
         /\ lastCall' = [op |-> "init", start |-> s, end |-> e,
                         before_start |-> None, before_end |-> None, raised |-> r.raised]
         /\ IF r.raised # "none"
            THEN pc' = "failed" /\ UNCHANGED winVars
            ELSE /\ pc' = "object"
                 /\ start_time' = r.start_time
                 /\ end_time' = r.end_time
    /\ UNCHANGED <<dest0, cfgVars, calls, raised, errlog, srcVars, dstVars>>

\* uploader.start_time = v
SetStartTime ==
    /\ pc = "object"
    /\ \E v \in WindowInputs :
         LET r == set_start_time(Fields, v) IN
         /\ lastCall' = [op |-> "set_start", start |-> v, end |-> None,
                         before_start |-> start_time, before_end |-> end_time,
                         raised |-> r.raised]
         /\ start_time' = r.start_time
         /\ end_time' = r.end_time
    /\ UNCHANGED <<pc, dest0, cfgVars, calls, raised, errlog, srcVars, dstVars>>

\* uploader.end_time = v
SetEndTime ==
    /\ pc = "object"
    /\ \E v \in WindowInputs :
         LET r == set_end_time(Fields, v) IN
         /\ lastCall' = [op |-> "set_end", start |-> None, end |-> v,
                         before_start |-> start_time, before_end |-> end_time,
                         raised |-> r.raised]
         /\ start_time' = r.start_time
         /\ end_time' = r.end_time
    /\ UNCHANGED <<pc, dest0, cfgVars, calls, raised, errlog, srcVars, dstVars>>

NextWindow ==
    \/ NewUploader
    \/ SetStartTime
    \/ SetEndTime

WindowSpec == InitWindow /\ [][NextWindow]_vars

----------------------------------------------------------------------------
(* _retrieve_upload_calendar on its own: any configured URL, any listing *)

InitResolve ==
    /\ pc = "resolve"
    /\ calendar_url \in Urls
    /\ cfg_start = None /\ cfg_end = None
    /\ start_time = None /\ end_time = None
    /\ calls = <<>>
    /\ raised = "none"
    /\ errlog = <<>>
    /\ req_text = NoText
    /\ source_events = <<>>
    /\ calendars = <<>>
    /\ upload_cal = 0
    /\ dest = {}
    /\ dest0 = {}
    /\ old_events = <<>>
    /\ idx = 0
    /\ lastCall = NoCall

ResolveAny == ResolveFrom(CalendarListings)

NextResolve == ResolveAny

ResolveSpec == InitResolve /\ [][NextResolve]_vars

----------------------------------------------------------------------------
(* The claims *)

Results(op) == {calls[k].result : k \in CallsOf(op)}

MutationCalls == {k \in DOMAIN calls : calls[k].op \in {"delete", "add_event"}}

Completed == pc = "exit" /\ raised = "none"

\* C1: in _upload_events every event the window query returned has been deleted
\* before any insertion is attempted, and once a deletion has failed no
\* insertion is attempted.
C1_DeleteAllBeforeInsert ==
    LET deletes == CallsOf("delete")
        inserts == CallsOf("add_event")
    IN  /\ inserts # {} =>
             /\ Cardinality(deletes) = Len(old_events)
             /\ \A d \in deletes : calls[d].result = "ok" /\ \A a \in inserts : d < a
             /\ \A k \in DOMAIN old_events : old_events[k] \notin dest
        /\ (\E d \in deletes : calls[d].result = "DeleteError") =>
             /\ inserts = {}
             /\ raised = "DeleteError"

\* C1 witness: two events were found and deleted and an insertion was attempted.
C1_Witness ==
    /\ Len(old_events) >= 2
    /\ CallsOf("add_event") # {}

\* C2: after a run that completes without error the destination's events of the
\* window are exactly the fetched events, each once, and none of the events
\* that were in the window before the run remains.
C2_WindowHoldsExactlyFetched ==
    Completed =>
        LET now == InWindow(dest, start_time, end_time) IN
        /\ \A k \in DOMAIN source_events :
             Cardinality({o \in now : o.time = source_events[k].time}) = 1
        /\ \A o \in now : \E k \in DOMAIN source_events : source_events[k].time = o.time
        /\ InWindow(dest0, start_time, end_time) \cap dest = {}

\* C3: when the query for the existing events fails the run ends with
\* ReportError and nothing has been deleted or inserted: the destination is as
\* it was.
C3_QueryFailureNoMutation ==
    (\E k \in CallsOf("date_search") : calls[k].result # "ok") =>
        /\ raised = "ReportError"
        /\ pc = "exit"
        /\ MutationCalls = {}
        /\ dest = dest0

\* C3 witness: the query failed with events in the window and events to upload.
C3_Witness ==
    /\ "ReportError" \in Results("date_search")
    /\ InWindow(dest0, start_time, end_time) # {}
    /\ source_events # <<>>

\* C4: start_time <= end_time holds for every constructed object, after any
\* assignments to one bound at a time; an assignment that would break the order
\* raises ValueError and changes neither bound.
C4_WindowOrdered ==
    /\ pc = "object" => start_time <= end_time
    /\ lastCall.op = "set_start" /\ lastCall.start > lastCall.before_end =>
         /\ lastCall.raised = "ValueError"
         /\ start_time = lastCall.before_start
         /\ end_time = lastCall.before_end
    /\ lastCall.op = "set_end" /\ lastCall.end < lastCall.before_start =>
         /\ lastCall.raised = "ValueError"
         /\ start_time = lastCall.before_start
         /\ end_time = lastCall.before_end

\* C4 witness: an assignment to start_time after end_time was refused.
C4_Witness ==
    /\ lastCall.op = "set_start"
    /\ lastCall.start > lastCall.before_end
    /\ lastCall.raised = "ValueError"

\* C5: the constructor raises when exactly one bound is supplied; with none, or
\* with both bounds and start <= end, it does not raise and the object has
\* exactly the supplied window.
C5_ConstructorAcceptsOrderedWindows ==
    lastCall.op = "init" =>
        /\ (lastCall.start = None) # (lastCall.end = None) => lastCall.raised = "ValueError"
        /\ lastCall.start = None /\ lastCall.end = None => lastCall.raised = "none"
        /\ lastCall.start # None /\ lastCall.end # None /\ lastCall.start <= lastCall.end =>
             /\ lastCall.raised = "none"
             /\ start_time = lastCall.start
             /\ end_time = lastCall.end

\* The redirect target recorded with a call holds the failure marker
HasMarker(call) == \E n \in DOMAIN call.detail : call.detail[n] = "loginfailed.asp"

LoginMarkerCalls == {k \in CallsOf("post_login") : HasMarker(calls[k])}

\* C6 as claimed: when the redirect target of the login response holds the failure
\* marker, the run ends with CampusOfficeAuthorizationError and the export is
\* never requested.
C6_MarkerRaisesAuthorizationError ==
    LoginMarkerCalls # {} =>
        /\ raised = "CampusOfficeAuthorizationError"
        /\ CallsOf("get_calendar") = {}

\* C6 as amended: when the redirect target of the login response holds the failure
\* marker the export is never requested; the run ends with
\* CampusOfficeAuthorizationError when that response has a 2xx status, and
\* with the HTTPError of raise_for_status when it has not.
C6_MarkerStopsBeforeExport ==
    \A k \in LoginMarkerCalls :
        /\ CallsOf("get_calendar") = {}
        /\ pc = "exit"
        /\ calls[k].result = "ok" => raised = "CampusOfficeAuthorizationError"
        /\ calls[k].result = "HTTPError" => raised = "HTTPError"

\* C6 witness: a 2xx login response redirected to the failure page.
C6_Witness ==
    /\ \E k \in LoginMarkerCalls : calls[k].result = "ok"
    /\ raised = "CampusOfficeAuthorizationError"

\* C7: every failure of a run ends in one logged line and a normal exit, no
\* exception escapes the script; a missing field or section of the config
\* file is reported so before any request is made.
C7_EveryFailureLogged ==
    /\ pc # "crashed"
    /\ raised # "none" => pc = "exit" /\ Len(errlog) = 1
    /\ raised \in {"NoOptionError", "NoSectionError"} => calls = <<>>

\* C8: once a well-formed export has been retrieved, a failed logout request,
\* whether a non-2xx response or a failure of the network layer, does not end
\* the run: the export is parsed next.
C8_LogoutBestEffort ==
    \A k \in CallsOf("get_logout") :
        calls[k].result # "ok" /\ k = Len(calls) /\ req_text.wellformed =>
            raised = "none" /\ pc # "exit"

\* C9: _retrieve_upload_calendar returns the first listed calendar whose URL
\* equals the configured URL, and raises NotFoundError when no listed URL
\* equals it; a calendar of another URL is never returned.
C9_ResolveExactMatch ==
    "ok" \in Results("calendars") =>
        LET matching == {k \in DOMAIN calendars : calendars[k] = calendar_url} IN
        IF matching = {}
        THEN raised = "NotFoundError" /\ upload_cal = 0
        ELSE /\ raised = "none"
             /\ upload_cal \in matching
             /\ \A k \in matching : upload_cal <= k

\* C9 witness: the calendar returned is listed after a calendar of another URL.
C9_Witness ==
    /\ upload_cal > 1
    /\ calendars[upload_cal] = calendar_url
    /\ calendars[1] # calendar_url

\* Before call k the four requests of the fetch were answered and the export parsed
FetchedBefore(k) ==
    /\ \E j \in 1..(k - 1) : calls[j].op = "get_base" /\ calls[j].result = "ok"
    /\ \E j \in 1..(k - 1) :
         calls[j].op = "post_login" /\ calls[j].result = "ok" /\ ~HasMarker(calls[j])
    /\ \E j \in 1..(k - 1) : calls[j].op = "get_calendar" /\ calls[j].result = "ok"
    /\ \E j \in 1..(k - 1) : calls[j].op = "get_logout" /\ calls[j].result # "ConnectionError"
    /\ req_text.wellformed

\* Before call k the calendars were listed and one of them was returned
ResolvedBefore(k) ==
    /\ \E j \in 1..(k - 1) : calls[j].op = "calendars" /\ calls[j].result = "ok"
    /\ upload_cal # 0

\* C10: nothing is deleted from or inserted into the destination before the
\* source fetch and the calendar resolution have both returned (the first
\* deletion or insertion comes after both); a run ended by
\* a source transport error, a source login failure, a destination
\* authorization failure or calendar-not-found leaves the destination as it was.
C10_NoMutationBeforeFetchAndResolve ==
    LET mutations == MutationCalls IN
    /\ mutations # {} =>
         LET first == CHOOSE k \in mutations : \A m \in mutations : k <= m IN
         FetchedBefore(first) /\ ResolvedBefore(first)
    /\ dest # dest0 => mutations # {}
    /\ raised \in {"HTTPError", "ConnectionError", "CampusOfficeAuthorizationError",
                   "AuthorizationError", "NotFoundError"} =>
         /\ dest = dest0
         /\ mutations = {}

\* C10 witness: the calendar was not found after a fetch that returned events, with
\* events of the destination in the window.
C10_Witness ==
    /\ raised = "NotFoundError"
    /\ source_events # <<>>
    /\ InWindow(dest0, start_time, end_time) # {}

=============================================================================
